---- MODULE Spec2Model ----
(***************************************************************************)
(* AURA voice assistant (src/main.py): the command router, the GUI update  *)
(* queue drained by a Tk timer, the medication-reminder timers and the     *)
(* listening loop, as a state machine.                                      *)
(*                                                                         *)
(* Text is modelled as a sequence of one-character strings, so substring   *)
(* tests, lower(), strip(), split() and int() are computed, not assumed.    *)
(***************************************************************************)
EXTENDS Integers, Sequences, FiniteSets, TLC

(***************************************************************************)
(* Python str operations used by the program                               *)
(***************************************************************************)
UpperAlpha == <<"A", "B", "C", "D", "E", "F", "G", "H", "I", "J", "K", "L", "M",
                "N", "O", "P", "Q", "R", "S", "T", "U", "V", "W", "X", "Y", "Z">>
LowerAlpha == <<"a", "b", "c", "d", "e", "f", "g", "h", "i", "j", "k", "l", "m",
                "n", "o", "p", "q", "r", "s", "t", "u", "v", "w", "x", "y", "z">>
Whitespace == {" ", "\t"}
Digits == <<"0", "1", "2", "3", "4", "5", "6", "7", "8", "9">>

\* str.lower() on one character
LowerChar(c) ==
    IF \E i \in 1..Len(UpperAlpha) : UpperAlpha[i] = c
    THEN LowerAlpha[CHOOSE i \in 1..Len(UpperAlpha) : UpperAlpha[i] = c]
    ELSE c

\* str.lower()
Lower(s) == [i \in 1..Len(s) |-> LowerChar(s[i])]

\* str.strip(): drop leading and trailing whitespace
Least(S) == IF S = {} THEN 0 ELSE CHOOSE i \in S : \A j \in S : i <= j
Greatest(S) == IF S = {} THEN 0 ELSE CHOOSE i \in S : \A j \in S : i >= j
NonBlank(s) == {i \in 1..Len(s) : s[i] \notin Whitespace}
Strip(s) == IF NonBlank(s) = {} THEN <<>> ELSE SubSeq(s, Least(NonBlank(s)), Greatest(NonBlank(s)))

\* k occurs in s at position i
OccursAt(s, k, i) == i >= 1 /\ i + Len(k) - 1 <= Len(s) /\ SubSeq(s, i, i + Len(k) - 1) = k

\* Python's  k in s
Contains(s, k) == \E i \in 1..(Len(s) + 1) : OccursAt(s, k, i)

\* str.startswith
StartsWith(s, k) == OccursAt(s, k, 1)

\* first / last position where k occurs in s (0 when it does not)
Occurrences(s, k) == {i \in 1..(Len(s) + 1) : OccursAt(s, k, i)}
FindFirst(s, k) == Least(Occurrences(s, k))
FindLast(s, k) == Greatest(Occurrences(s, k))

\* s.split(k, 1): at most one split, from the left
SplitAt(s, k, p) == IF p = 0 THEN <<s>> ELSE <<SubSeq(s, 1, p - 1), SubSeq(s, p + Len(k), Len(s))>>
Split1(s, k) == SplitAt(s, k, FindFirst(s, k))

\* s.rsplit(k, 1): at most one split, from the right
RSplit1(s, k) == SplitAt(s, k, FindLast(s, k))

\* s.split(k): every split
RECURSIVE SplitAll(_, _)
SplitAll(s, k) ==
    IF ~Contains(s, k) THEN <<s>>
    ELSE <<Split1(s, k)[1]>> \o SplitAll(Split1(s, k)[2], k)

\* s.replace(k, "") : every non-overlapping occurrence removed, left to right
RECURSIVE RemoveAll(_, _)
RemoveAll(s, k) ==
    IF ~Contains(s, k) THEN s
    ELSE Split1(s, k)[1] \o RemoveAll(Split1(s, k)[2], k)

IsDigit(c) == \E i \in 1..Len(Digits) : Digits[i] = c
DigitVal(c) == (CHOOSE i \in 1..Len(Digits) : Digits[i] = c) - 1

RECURSIVE DigitsVal(_)
DigitsVal(s) == IF s = <<>> THEN 0 ELSE 10 * DigitsVal(SubSeq(s, 1, Len(s) - 1)) + DigitVal(s[Len(s)])

\* int(x): surrounding whitespace and one sign are accepted, then decimal digits only.
\* The result is [ok |-> FALSE] where Python raises ValueError.
IntOfDigits(body, negative) ==
    IF body # <<>> /\ \A i \in 1..Len(body) : IsDigit(body[i])
    THEN [ok |-> TRUE, val |-> IF negative THEN 0 - DigitsVal(body) ELSE DigitsVal(body)]
    ELSE [ok |-> FALSE, val |-> 0]
IntOfStripped(t) ==
    IF t # <<>> /\ t[1] \in {"+", "-"}
    THEN IntOfDigits(SubSeq(t, 2, Len(t)), t[1] = "-")
    ELSE IntOfDigits(t, FALSE)
PyInt(x) == IntOfStripped(Strip(x))

(***************************************************************************)
(* Keywords of the router and of add_reminder                              *)
(***************************************************************************)
K ==
    [help |-> <<"h", "e", "l", "p">>,
     emergency |-> <<"e", "m", "e", "r", "g", "e", "n", "c", "y">>,
     accident |-> <<"a", "c", "c", "i", "d", "e", "n", "t">>,
     fall |-> <<"f", "a", "l", "l">>,
     ambulance |-> <<"a", "m", "b", "u", "l", "a", "n", "c", "e">>,
     time |-> <<"t", "i", "m", "e">>,
     date |-> <<"d", "a", "t", "e">>,
     weather |-> <<"w", "e", "a", "t", "h", "e", "r">>,
     news |-> <<"n", "e", "w", "s">>,
     joke |-> <<"j", "o", "k", "e">>,
     play_music |-> <<"p", "l", "a", "y", " ", "m", "u", "s", "i", "c">>,
     play_song |-> <<"p", "l", "a", "y", " ", "s", "o", "n", "g">>,
     remind_me |-> <<"r", "e", "m", "i", "n", "d", " ", "m", "e">>,
     reminder |-> <<"r", "e", "m", "i", "n", "d", "e", "r">>,
     medication |-> <<"m", "e", "d", "i", "c", "a", "t", "i", "o", "n">>,
     pill |-> <<"p", "i", "l", "l">>,
     medicine |-> <<"m", "e", "d", "i", "c", "i", "n", "e">>,
     open |-> <<"o", "p", "e", "n">>,
     http |-> <<"h", "t", "t", "p">>,
     dot |-> <<".">>,
     website |-> <<"w", "e", "b", "s", "i", "t", "e">>,
     exit |-> <<"e", "x", "i", "t">>,
     quit |-> <<"q", "u", "i", "t">>,
     goodbye |-> <<"g", "o", "o", "d", "b", "y", "e">>,
     remind_me_to |-> <<"r", "e", "m", "i", "n", "d", " ", "m", "e", " ", "t", "o">>,
     at |-> <<" ", "a", "t", " ">>,
     https |-> <<"h", "t", "t", "p", "s", ":", "/", "/">>,
     colon |-> <<":">>]

EmergencyKeywords == {K.help, K.emergency, K.accident, K.fall, K.ambulance}
ExitKeywords == {K.exit, K.quit, K.goodbye}

\* any(k in cmd for k in ks)
ContainsAny(cmd, ks) == \E k \in ks : Contains(cmd, k)

(***************************************************************************)
(* _do_command: the router                                                 *)
(***************************************************************************)
\* cmd = command.lower().strip()
NormalizeCommand(command) == Strip(Lower(command))

\* The if-statements of _do_command in source order; the last is the code that
\* runs when no if-statement returned (OpenAI, then Wikipedia).
Branches == <<"emergency", "time", "date", "weather", "news", "joke", "play music",
              "reminder", "medication", "open", "exit", "knowledge">>

\* The condition of each if-statement, on cmd
BranchCond(b, cmd) ==
    CASE b = "emergency"  -> ContainsAny(cmd, EmergencyKeywords)
      [] b = "time"       -> Contains(cmd, K.time)
      [] b = "date"       -> Contains(cmd, K.date)
      [] b = "weather"    -> Contains(cmd, K.weather)
      [] b = "news"       -> Contains(cmd, K.news)
      [] b = "joke"       -> Contains(cmd, K.joke)
      [] b = "play music" -> Contains(cmd, K.play_music) \/ Contains(cmd, K.play_song)
      [] b = "reminder"   -> Contains(cmd, K.remind_me) \/ Contains(cmd, K.reminder)
      [] b = "medication" -> Contains(cmd, K.medication) \/ Contains(cmd, K.pill) \/ Contains(cmd, K.medicine)
      [] b = "open"       -> Contains(cmd, K.open) /\ (Contains(cmd, K.http) \/ Contains(cmd, K.dot) \/ Contains(cmd, K.website))
      [] b = "exit"       -> ContainsAny(cmd, ExitKeywords)
      [] b = "knowledge"  -> TRUE

\* Whether the body of the if-statement ends in  return
BranchReturns_TimeFallsThrough(b) == b # "time"
BranchReturns(b) == TRUE

\* The handlers one call of _do_command runs: the if-statements are tried in
\* order from the i-th, a body that returns ends the call.
RECURSIVE RunChain(_, _)
RunChain(i, cmd) ==
    IF i > Len(Branches) THEN <<>>
    ELSE IF BranchCond(Branches[i], cmd)
         THEN <<Branches[i]>> \o (IF BranchReturns(Branches[i]) THEN <<>> ELSE RunChain(i + 1, cmd))
         ELSE RunChain(i + 1, cmd)

HandlersRun(command) == RunChain(1, NormalizeCommand(command))

(***************************************************************************)
(* Time of day and the first delay of a timer for HH:MM                    *)
(***************************************************************************)
MsPerDay == 86400000
SecPerDay == 86400
UsPerSec == 1000000

\* hh, mm = [int(x) for x in tstr.strip().split(":")], then
\* now.replace(hour=hh, minute=mm, ...), which raises outside 0..23 / 0..59
HourMinute(h, m) ==
    IF h.ok /\ m.ok /\ h.val \in 0..23 /\ m.val \in 0..59
    THEN [ok |-> TRUE, hh |-> h.val, mm |-> m.val]
    ELSE [ok |-> FALSE, hh |-> 0, mm |-> 0]
ParseParts(parts) ==
    IF Len(parts) # 2 THEN [ok |-> FALSE, hh |-> 0, mm |-> 0]
    ELSE HourMinute(PyInt(parts[1]), PyInt(parts[2]))
ParseHHMM(tstr) == ParseParts(SplitAll(Strip(tstr), K.colon))

\* A clock reading (datetime.now()): hour, minute, second, microsecond
At(h, m, s, us) == [h |-> h, m |-> m, s |-> s, us |-> us]
Noon == At(12, 0, 0, 0)

\* seconds since midnight
SecOfDay(now) == now.h * 3600 + now.m * 60 + now.s

NextIsPast_Strict(now, hh, mm) == hh * 3600 + mm * 60 < SecOfDay(now)

\* next_dt = now.replace(hour=hh, minute=mm, second=0, microsecond=0);
\* next_dt <= now  (next_dt has no microseconds, so seconds decide)
NextIsPast(now, hh, mm) == hh * 3600 + mm * 60 <= SecOfDay(now)

\* next_dt - now as a timedelta [seconds, microseconds], after
\* if next_dt <= now: next_dt += timedelta(days=1)
TimeDelta(whole, us) ==
    IF us = 0 THEN [seconds |-> whole, microseconds |-> 0]
    ELSE [seconds |-> whole - 1, microseconds |-> UsPerSec - us]
DeltaTo(now, hh, mm) ==
    TimeDelta(hh * 3600 + mm * 60 + (IF NextIsPast(now, hh, mm) THEN SecPerDay ELSE 0) - SecOfDay(now),
              now.us)

\* int(delta.total_seconds() * 1000)
DelayMs(delta) == delta.seconds * 1000 + (delta.microseconds \div 1000)

FirstDelayMs(now, hh, mm) == DelayMs(DeltaTo(now, hh, mm))

(***************************************************************************)
(* Effects of the handlers.  An effect is what one call does to the shared *)
(* state: the items it puts on gui_queue (in order), the speak() threads   *)
(* it starts, the Tk calls it makes itself (tk), the timers it registers,  *)
(* the external services it calls, the new favorites.music, and whether it *)
(* ended by raising.  env holds the outcomes of what the call cannot       *)
(* decide: the external services, the file dialog, the mixer, the clock,   *)
(* and a Tk call made off the main thread (tk = "raise": RuntimeError).    *)
(***************************************************************************)
Txt(msg, arg) == [msg |-> msg, arg |-> arg]
AppendItem(tag, msg, arg) == [action |-> "append", tag |-> tag, text |-> Txt(msg, arg)]
Status(msg) == [action |-> "status", tag |-> "-", text |-> Txt(msg, <<>>)]
Button(msg) == [action |-> "button", tag |-> "listen_button", text |-> Txt(msg, <<>>)]
ErrorPopup(msg) == [action |-> "error_popup", tag |-> "-", text |-> Txt(msg, <<>>)]

NoEff(cfg) == [puts |-> <<>>, speaks |-> 0, tk |-> <<>>, timers |-> <<>>, calls |-> <<>>,
               music |-> cfg.favorites.music, raised |-> FALSE]

\* A Tk call made by thread th fails only off the main thread
TkRaises(th, env) == th = "bg" /\ env.tk = "raise"

PutsOf(cfg, items) == [NoEff(cfg) EXCEPT !.puts = items]

\* e1 then e2
Then(e1, e2) ==
    [puts |-> e1.puts \o e2.puts, speaks |-> e1.speaks + e2.speaks, tk |-> e1.tk \o e2.tk,
     timers |-> e1.timers \o e2.timers, calls |-> e1.calls \o e2.calls,
     music |-> e2.music, raised |-> e2.raised]

\* One reply put on the queue and spoken
Reply(cfg, msg, arg) == [NoEff(cfg) EXCEPT !.puts = <<AppendItem("assistant", msg, arg)>>, !.speaks = 1]

\* c.get(key, "Unknown") on a contact dictionary
ContactField(c, key) == IF key \in DOMAIN c THEN c[key] ELSE "Unknown"

ContactPuts_Reversed(contacts) ==
    IF contacts = <<>>
    THEN <<AppendItem("assistant", "No emergency contacts configured. Please add them in Settings.", <<>>)>>
    ELSE [i \in 1..Len(contacts) |->
            AppendItem("system", "Simulating call to",
                       <<ContactField(contacts[Len(contacts) + 1 - i], "name"),
                         ContactField(contacts[Len(contacts) + 1 - i], "phone")>>)]

\* emergency_protocol: the for loop over the contacts
ContactPuts(contacts) ==
    IF contacts = <<>>
    THEN <<AppendItem("assistant", "No emergency contacts configured. Please add them in Settings.", <<>>)>>
    ELSE [i \in 1..Len(contacts) |->
            AppendItem("system", "Simulating call to",
                       <<ContactField(contacts[i], "name"), ContactField(contacts[i], "phone")>>)]

\* emergency_protocol
emergency_protocol(cfg) ==
    [NoEff(cfg) EXCEPT
       !.puts = <<AppendItem("emergency", "Emergency assistance requested! Contacting emergency contacts...", <<>>)>>
                \o ContactPuts(cfg.emergency_contacts),
       !.speaks = 1]

\* play_music_from_favorites from  try: choice = random.choice(music_files) ...
PlayChoice(e, env) ==
    [e EXCEPT !.puts = @ \o <<IF env.mixer = "ok"
                               THEN AppendItem("assistant", "Now playing", <<>>)
                               ELSE AppendItem("assistant", "Could not play music", <<>>)>>]

\* play_music_from_favorites with no favorites: the file dialog
AskMusicFile(asked, env, th) ==
    IF TkRaises(th, env) THEN [asked EXCEPT !.raised = TRUE]
    ELSE IF env.dialog = "path"
         THEN PlayChoice([asked EXCEPT !.music = <<"chosen.mp3">>], env)
         ELSE [asked EXCEPT !.puts = <<AppendItem("assistant", "No music files configured.", <<>>)>>]

\* play_music_from_favorites, called by thread th ("ui": the Play button, "bg": the router)
play_music_from_favorites(cfg, env, th) ==
    IF cfg.favorites.music # <<>> THEN PlayChoice(NoEff(cfg), env)
    ELSE AskMusicFile([NoEff(cfg) EXCEPT !.tk = <<[op |-> "filedialog.askopenfilename", thread |-> th]>>], env, th)

Answer(cfg, msg, arg) == [eff |-> NoEff(cfg), resp |-> Txt(msg, arg)]

\* add_reminder: the try block, with the time parsed as t
ArmReminder(cfg, task, tstr, t, env, th) ==
    IF ~t.ok THEN Answer(cfg, "I couldn't parse the time. Use HH:MM format.", <<>>)
    ELSE IF TkRaises(th, env)
         THEN [eff |-> [NoEff(cfg) EXCEPT !.tk = <<[op |-> "after", thread |-> th]>>],
               resp |-> Txt("I couldn't parse the time. Use HH:MM format.", <<>>)]
         ELSE [eff |-> [NoEff(cfg) EXCEPT
                          !.tk = <<[op |-> "after", thread |-> th]>>,
                          !.timers = <<[fn |-> "reminder", med |-> task, tstr |-> tstr,
                                        delay |-> FirstDelayMs(env.now, t.hh, t.mm)]>>],
               resp |-> Txt("Okay - I'll remind you to at", task \o K.at \o tstr)]

\* add_reminder: words = part.rsplit(" at ", 1)
ReminderWords(cfg, part, words, env, th) ==
    IF Len(words) # 2
    THEN Answer(cfg, "Okay - I'll remind you to (but no time was given).", part)
    ELSE ArmReminder(cfg, Strip(words[1]), Strip(words[2]), ParseHHMM(Strip(words[2])), env, th)

\* add_reminder: part = command_text.split("remind me to", 1)[1].strip()
ReminderPart(cfg, part, env, th) == ReminderWords(cfg, part, RSplit1(part, K.at), env, th)

\* add_reminder(command_text), called by thread th; resp is the returned text
add_reminder(cfg, command_text, env, th) ==
    IF ~Contains(command_text, K.remind_me_to)
    THEN Answer(cfg, "Tell me what to remind you about using 'remind me to ... at HH:MM'.", <<>>)
    ELSE ReminderPart(cfg, Strip(Split1(command_text, K.remind_me_to)[2]), env, th)

\* show_medication_schedule; resp is the returned text ("None": returns nothing)
show_medication_schedule(cfg) ==
    IF cfg.medication_schedule = <<>>
    THEN [eff |-> PutsOf(cfg, <<AppendItem("assistant", "You don't have any medications scheduled. Add them in Settings.", <<>>)>>),
          resp |-> Txt("None", <<>>)]
    ELSE [eff |-> PutsOf(cfg, <<AppendItem("assistant", "Your medication schedule:", <<>>)>>),
          resp |-> Txt("Your medication schedule:", <<>>)]

\* the open branch: target after  target = command.replace("open", "").strip()
TargetUrl(t2) == IF StartsWith(t2, K.http) THEN t2 ELSE K.https \o t2
TargetOf(t1) ==
    IF ~StartsWith(t1, K.http) /\ Contains(t1, K.website)
    THEN TargetUrl(Strip(RemoveAll(t1, K.website)))
    ELSE TargetUrl(t1)
OpenTarget(command) == TargetOf(Strip(RemoveAll(command, K.open)))

\* One answer of the fallback: put and spoken, after the calls made
Answered(cfg, calls, msg) ==
    [NoEff(cfg) EXCEPT !.calls = calls, !.speaks = 1, !.puts = <<AppendItem("assistant", msg, <<>>)>>]

\* wikipedia.summary, and the apology when it raises
WikipediaFallback(cfg, env, before) ==
    IF env.wiki = "ok" THEN Answered(cfg, before \o <<"wikipedia">>, "wikipedia summary")
    ELSE Answered(cfg, before \o <<"wikipedia">>, "Sorry, I couldn't find an answer.")

KnowledgeFallback_ApologyAfterAiError(cfg, env) ==
    IF cfg.api_keys.openai # ""
    THEN IF env.ai = "ok" THEN Answered(cfg, <<"openai">>, "openai text")
         ELSE Answered(cfg, <<"openai">>, "Sorry, I couldn't find an answer.")
    ELSE WikipediaFallback(cfg, env, <<>>)

\* The code after the last if-statement: OpenAI when a key is configured, then
\* Wikipedia, then the apology
KnowledgeFallback(cfg, env) ==
    IF cfg.api_keys.openai # ""
    THEN IF env.ai = "ok" THEN Answered(cfg, <<"openai">>, "openai text")
         ELSE WikipediaFallback(cfg, env, <<"openai">>)
    ELSE WikipediaFallback(cfg, env, <<>>)

CloseDelayMs == 800

\* the play music branch after play_music_from_favorites returned p
AfterPlay(p) ==
    IF p.raised THEN p
    ELSE [p EXCEPT !.puts = @ \o <<AppendItem("assistant", "Playing music from favorites.", <<>>)>>]

\* resp = ...; put(("append", "assistant", resp)); speak(resp)
WithReply(cfg, r) == Then(r.eff, Reply(cfg, r.resp.msg, r.resp.arg))

\* the exit branch: Goodbye, then self.after(800, self.on_close) off the main thread
ExitEff(said, env) ==
    IF TkRaises("bg", env) THEN [said EXCEPT !.raised = TRUE]
    ELSE [said EXCEPT !.timers = <<[fn |-> "on_close", med |-> <<>>, tstr |-> <<>>, delay |-> CloseDelayMs]>>]

\* The body of the if-statement b of _do_command, run by a background thread
HandlerEff(b, command, cfg, env) ==
    CASE b = "emergency" ->
           Then(PutsOf(cfg, <<AppendItem("assistant", "Triggering emergency protocol.", <<>>)>>),
                emergency_protocol(cfg))
      [] b = "time" -> Reply(cfg, "The time is", <<>>)
      [] b = "date" -> Reply(cfg, "Today is", <<>>)
      [] b = "weather" -> [Reply(cfg, "weather report", <<>>) EXCEPT !.calls = <<"get_weather">>]
      [] b = "news" -> [Reply(cfg, "news report", <<>>) EXCEPT !.calls = <<"get_news">>]
      [] b = "joke" -> Reply(cfg, "joke", <<>>)
      [] b = "play music" -> AfterPlay(play_music_from_favorites(cfg, env, "bg"))
      [] b = "reminder" -> WithReply(cfg, add_reminder(cfg, NormalizeCommand(command), env, "bg"))
      [] b = "medication" -> WithReply(cfg, show_medication_schedule(cfg))
      [] b = "open" ->
           [NoEff(cfg) EXCEPT !.calls = <<"webbrowser.open">>,
                              !.puts = <<AppendItem("assistant", "Opening", OpenTarget(command))>>]
      [] b = "exit" ->
           ExitEff([Reply(cfg, "Goodbye!", <<>>) EXCEPT !.tk = <<[op |-> "after", thread |-> "bg"]>>], env)
      [] b = "knowledge" -> KnowledgeFallback(cfg, env)

\* The handlers hs run one after the other, from effect e so far, until one raises
RECURSIVE ChainEff(_, _, _, _, _)
ChainEff(e, hs, command, cfg, env) ==
    IF hs = <<>> \/ e.raised THEN e
    ELSE ChainEff(Then(e, HandlerEff(Head(hs), command, [cfg EXCEPT !.favorites.music = e.music], env)),
                  Tail(hs), command, cfg, env)

Caught_Silent(e) == [e EXCEPT !.raised = FALSE]

\* except Exception: the "An error occurred" reply
Caught(e) ==
    IF e.raised
    THEN [e EXCEPT !.puts = @ \o <<AppendItem("assistant", "An error occurred", <<>>)>>, !.raised = FALSE]
    ELSE e

\* _do_command(command): the handlers it runs and, when one raised, the except clause
do_command(command, cfg, env) == Caught(ChainEff(NoEff(cfg), HandlersRun(command), command, cfg, env))

(***************************************************************************)
(* ConfigManager.  A JSON value has a kind and a content v: an object      *)
(* ("dict": keys to values), an array ("list": values in order), a string  *)
(* ("str": its characters), a number ("num") or null.  Keys are strings,   *)
(* held as their characters.                                               *)
(***************************************************************************)
JsonValue(kind, v) == [kind |-> kind, v |-> v]

\* isinstance(cur, dict)
IsDict(x) == x.kind = "dict"

\* The keys of DEFAULT_CONFIG and of its nested dictionaries; two strings a
\* configuration can hold
CK ==
    [user_name |-> <<"u", "s", "e", "r", "_", "n", "a", "m", "e">>,
     city |-> <<"c", "i", "t", "y">>,
     theme |-> <<"t", "h", "e", "m", "e">>,
     font_size |-> <<"f", "o", "n", "t", "_", "s", "i", "z", "e">>,
     voice_rate |-> <<"v", "o", "i", "c", "e", "_", "r", "a", "t", "e">>,
     voice_volume |-> <<"v", "o", "i", "c", "e", "_", "v", "o", "l", "u", "m", "e">>,
     api_keys |-> <<"a", "p", "i", "_", "k", "e", "y", "s">>,
     openweathermap |-> <<"o", "p", "e", "n", "w", "e", "a", "t", "h", "e", "r", "m", "a", "p">>,
     newsapi |-> <<"n", "e", "w", "s", "a", "p", "i">>,
     openai |-> <<"o", "p", "e", "n", "a", "i">>,
     favorites |-> <<"f", "a", "v", "o", "r", "i", "t", "e", "s">>,
     music |-> <<"m", "u", "s", "i", "c">>,
     websites |-> <<"w", "e", "b", "s", "i", "t", "e", "s">>,
     emergency_contacts |-> <<"e", "m", "e", "r", "g", "e", "n", "c", "y", "_", "c", "o", "n", "t", "a", "c", "t", "s">>,
     medication_schedule |-> <<"m", "e", "d", "i", "c", "a", "t", "i", "o", "n", "_", "s", "c", "h", "e", "d", "u", "l", "e">>,
     Paris |-> <<"P", "a", "r", "i", "s">>,
     sk |-> <<"s", "k">>]

\* A dictionary built from key/value pairs in order: a later pair replaces an
\* earlier one with the same key
FromPairs(pairs) ==
    [k \in {pairs[i][1] : i \in DOMAIN pairs} |->
        pairs[Greatest({i \in DOMAIN pairs : pairs[i][1] = k})][2]]

DEFAULT_CONFIG ==
    JsonValue("dict", FromPairs(<<
        <<CK.user_name, JsonValue("str", <<"U", "s", "e", "r">>)>>,
        <<CK.city, JsonValue("str", <<"N", "e", "w", " ", "Y", "o", "r", "k">>)>>,
        <<CK.theme, JsonValue("str", <<"D", "a", "r", "k">>)>>,
        <<CK.font_size, JsonValue("num", "16")>>,
        <<CK.voice_rate, JsonValue("num", "150")>>,
        <<CK.voice_volume, JsonValue("num", "1.0")>>,
        <<CK.api_keys, JsonValue("dict", FromPairs(<< <<CK.openweathermap, JsonValue("str", <<>>)>>,
                                                      <<CK.newsapi, JsonValue("str", <<>>)>>,
                                                      <<CK.openai, JsonValue("str", <<>>)>> >>))>>,
        <<CK.favorites, JsonValue("dict", FromPairs(<< <<CK.music, JsonValue("list", <<>>)>>,
                                                       <<CK.websites, JsonValue("list", <<>>)>> >>))>>,
        <<CK.emergency_contacts, JsonValue("list", <<>>)>>,
        <<CK.medication_schedule, JsonValue("dict", <<>>)>> >>))

\* d.update(other): the keys of other replace those of d.  With the arguments
\* exchanged it is d.setdefault(k, v) for every k, v of other.
Update(d, other) == [k \in DOMAIN d \cup DOMAIN other |-> IF k \in DOMAIN other THEN other[k] ELSE d[k]]

\* dict.update with a sequence: every element must hold two items, the first
\* of them hashable.  A two-character string is such an element.
PairOf(e) ==
    CASE e.kind = "str" /\ Len(e.v) = 2 ->
           [ok |-> TRUE, pair |-> <<<<e.v[1]>>, JsonValue("str", <<e.v[2]>>)>>]
      [] e.kind = "list" /\ Len(e.v) = 2 /\ e.v[1].kind = "str" ->
           [ok |-> TRUE, pair |-> <<e.v[1].v, e.v[2]>>]
      [] e.kind = "list" /\ Len(e.v) = 2 /\ e.v[1].kind \in {"num", "null"} ->
           [ok |-> TRUE, pair |-> <<<<e.v[1].kind, e.v[1].v>>, e.v[2]>>]
      [] OTHER -> [ok |-> FALSE, pair |-> <<>>]

\* merged.update(loaded): what it adds, or that it raises
UpdateArg(loaded) ==
    CASE loaded.kind = "dict" -> [ok |-> TRUE, d |-> loaded.v]
      [] loaded.kind = "list" ->
           IF \A i \in DOMAIN loaded.v : PairOf(loaded.v[i]).ok
           THEN [ok |-> TRUE, d |-> FromPairs([i \in DOMAIN loaded.v |-> PairOf(loaded.v[i]).pair])]
           ELSE [ok |-> FALSE, d |-> <<>>]
      [] loaded.kind = "str" -> [ok |-> loaded.v = <<>>, d |-> <<>>]
      [] OTHER -> [ok |-> FALSE, d |-> <<>>]

EnsureApiKeys_NoSetdefault(merged) ==
    IF CK.api_keys \notin DOMAIN merged
    THEN [ok |-> TRUE, d |-> Update(merged, FromPairs(<< <<CK.api_keys, DEFAULT_CONFIG.v[CK.api_keys]>> >>))]
    ELSE [ok |-> IsDict(merged[CK.api_keys]), d |-> merged]

\* _load: "ensure nested fields exist" for api_keys; setdefault on a value that
\* is not a dictionary raises
EnsureApiKeys(merged) ==
    IF CK.api_keys \notin DOMAIN merged
    THEN [ok |-> TRUE, d |-> Update(merged, FromPairs(<< <<CK.api_keys, DEFAULT_CONFIG.v[CK.api_keys]>> >>))]
    ELSE IF ~IsDict(merged[CK.api_keys])
         THEN [ok |-> FALSE, d |-> merged]
         ELSE [ok |-> TRUE,
               d |-> Update(merged,
                            FromPairs(<< <<CK.api_keys,
                                           JsonValue("dict", Update(DEFAULT_CONFIG.v[CK.api_keys].v,
                                                                    merged[CK.api_keys].v))>> >>))]

\* _load: the three other nested fields, each set when it is not in merged
EnsureOthers(merged) ==
    Update(FromPairs(<< <<CK.favorites, DEFAULT_CONFIG.v[CK.favorites]>>,
                        <<CK.medication_schedule, JsonValue("dict", <<>>)>>,
                        <<CK.emergency_contacts, JsonValue("list", <<>>)>> >>),
           merged)

\* config.json: missing, unreadable (open or json.load raises), or holding the JSON value
File(state, value) == [state |-> state, value |-> value]

\* ConfigManager._load: any exception inside the try block gives the defaults
Load(file) ==
    IF /\ file.state = "json"
       /\ UpdateArg(file.value).ok
       /\ EnsureApiKeys(Update(DEFAULT_CONFIG.v, UpdateArg(file.value).d)).ok
    THEN JsonValue("dict", EnsureOthers(EnsureApiKeys(Update(DEFAULT_CONFIG.v, UpdateArg(file.value).d)).d))
    ELSE DEFAULT_CONFIG

\* key_path.split(".")
Parts(key_path) == SplitAll(key_path, <<".">>)

\* ConfigManager.get: the for loop over parts, from cur
RECURSIVE Get(_, _, _)
Get(cur, parts, default) ==
    IF parts = <<>> THEN cur
    ELSE IF IsDict(cur) /\ Head(parts) \in DOMAIN cur.v
         THEN Get(cur.v[Head(parts)], Tail(parts), default)
         ELSE default

Child_AlwaysNew(cur, p) == JsonValue("dict", <<>>)

\* ConfigManager.set: if p not in cur or not isinstance(cur[p], dict): cur[p] = {}
Child(cur, p) == IF p \notin DOMAIN cur.v \/ ~IsDict(cur.v[p]) THEN JsonValue("dict", <<>>) ELSE cur.v[p]

\* ConfigManager.set: the for loop over parts[:-1] from cur, then cur[parts[-1]] = value
RECURSIVE Set(_, _, _)
Set(cur, parts, value) ==
    IF Len(parts) = 1
    THEN JsonValue("dict", Update(cur.v, FromPairs(<< <<parts[1], value>> >>)))
    ELSE JsonValue("dict", Update(cur.v, FromPairs(<< <<Head(parts),
                                                        Set(Child(cur, Head(parts)), Tail(parts), value)>> >>)))

(***************************************************************************)
(* State                                                                   *)
(***************************************************************************)
VARIABLES
    config,           \* ConfigManager.data: api_keys, favorites, emergency_contacts, medication_schedule
    alive,            \* the window exists (until destroy())
    gui_queue,        \* the mailbox: items in put order, each with the number of its put
    nextItemId,       \* how many items were put so far, plus one
    applied,          \* the ids of the items applied to the widgets, in order of application
    dropped,          \* the ids of the items whose application raised
    status_var,       \* the status bar text
    listen_button,    \* the label of the listen button
    tickTimers,       \* pending after(100, _process_gui_queue) timers
    after_jobs,       \* the other pending after() timers
    nextAfterId,      \* Tk hands out after ids once each
    med_after_ids,    \* _med_after_ids
    lastScheduled,    \* what _schedule_medication_reminders did last: the schedule it read and
                      \* the pending timers it cancelled
    listening_event,  \* threading.Event
    loopPc,           \* where each _listen_loop thread is
    loopIters,        \* iterations each _listen_loop thread has started
    sinceClear,       \* commands each _listen_loop thread dispatched since the flag was last cleared
    exitItems,        \* the ids of the button and status items each _listen_loop put on exit
    cmdThreads,       \* running _do_command threads: [id, command, userItem]
    nextCmdId,        \* how many _do_command threads were started, plus one
    ran,              \* what each finished _do_command did
    speakThreads,     \* running speak() threads
    tkCalls,          \* the Tk calls made so far: [op, thread]
    config_file,      \* config.json as ConfigManager._load finds it
    data,             \* ConfigManager.data as a JSON value, before _load: "unloaded"
    setCalls          \* how many times ConfigManager.set was called

vars == <<config, alive, gui_queue, nextItemId, applied, dropped, status_var, listen_button,
          tickTimers, after_jobs, nextAfterId, med_after_ids, lastScheduled, listening_event,
          loopPc, loopIters, sinceClear, exitItems, cmdThreads, nextCmdId, ran, speakThreads, tkCalls,
          config_file, data, setCalls>>

queueVars == <<gui_queue, nextItemId>>
uiVars == <<applied, dropped, status_var, listen_button>>
timerVars == <<after_jobs, nextAfterId, med_after_ids, lastScheduled>>
loopVars == <<loopPc, loopIters, sinceClear, exitItems>>
cmdVars == <<cmdThreads, nextCmdId, ran>>
mgrVars == <<config_file, data, setCalls>>

(***************************************************************************)
(* gui_queue.put and after()                                               *)
(***************************************************************************)
\* queue.Queue.put of each of items, in order: each goes to the tail
PutAll(q, n, items) ==
    q \o [i \in 1..Len(items) |->
            [id |-> n + i - 1, action |-> items[i].action, tag |-> items[i].tag, text |-> items[i].text]]

Put(items) ==
    /\ gui_queue' = PutAll(gui_queue, nextItemId, items)
    /\ nextItemId' = nextItemId + Len(items)

\* self.after(delay, callback) for each request, at time now: a fresh id each
Register(jobs, n, reqs, now) ==
    jobs \cup {[id |-> n + i - 1, fn |-> reqs[i].fn, med |-> reqs[i].med, tstr |-> reqs[i].tstr,
                delay |-> reqs[i].delay, armedAt |-> now, first |-> TRUE] : i \in 1..Len(reqs)}

(***************************************************************************)
(* Medication timers                                                       *)
(***************************************************************************)
\* for med, times in schedule.items(): for tstr in times: the entries in order
RECURSIVE ScheduleEntries(_)
ScheduleEntries(schedule) ==
    IF schedule = <<>> THEN <<>>
    ELSE [i \in 1..Len(Head(schedule).times) |-> [med |-> Head(schedule).med, tstr |-> Head(schedule).times[i]]]
         \o ScheduleEntries(Tail(schedule))

\* The entries whose body of the try does not raise
RECURSIVE ValidEntries(_)
ValidEntries(entries) ==
    IF entries = <<>> THEN <<>>
    ELSE (IF ParseHHMM(Head(entries).tstr).ok THEN <<Head(entries)>> ELSE <<>>) \o ValidEntries(Tail(entries))

\* The after() requests of _schedule_medication_reminders at time now
\* The after() request for one entry, its time parsed as t
MedRequest(entry, t, now) ==
    [fn |-> "med", med |-> entry.med, tstr |-> entry.tstr, delay |-> FirstDelayMs(now, t.hh, t.mm)]

RequestsFor(es, now) == [i \in 1..Len(es) |-> MedRequest(es[i], ParseHHMM(es[i].tstr), now)]

MedRequests(schedule, now) == RequestsFor(ValidEntries(ScheduleEntries(schedule)), now)

\* after_cancel of every id in ids
CancelAll(jobs, ids) == {j \in jobs : \A i \in 1..Len(ids) : ids[i] # j.id}

\* self._med_after_ids after the loop: the ids of the timers just armed
ArmedIds(n, count) == [i \in 1..count |-> n + i - 1]

Rearmed_Twice(j, n) ==
    {[id |-> n, fn |-> "med", med |-> j.med, tstr |-> j.tstr, delay |-> 2 * 24 * 3600 * 1000,
      armedAt |-> j.armedAt, first |-> FALSE]}

\* The timer _trigger_medication arms for the next day
Rearmed(j, n) ==
    {[id |-> n, fn |-> "med", med |-> j.med, tstr |-> j.tstr, delay |-> 24 * 3600 * 1000,
      armedAt |-> j.armedAt, first |-> FALSE]}

RearmedIds_Forgotten(ids, n) == ids

\* self._med_after_ids.append(after_id) in _trigger_medication
RearmedIds(ids, n) == Append(ids, n)

(***************************************************************************)
(* The drain: _process_gui_queue, run by the UI thread from its timer.     *)
(* k = 0: no application raises and the queue is emptied; k > 0: the k-th  *)
(* item of the queue raises when applied.                                  *)
(***************************************************************************)
\* The items applied before the loop ends
AppliedItems(q, k) == IF k = 0 THEN q ELSE SubSeq(q, 1, k - 1)

Remaining_NotTaken(q, k) == q
Remaining_LosesRest(q, k) == <<>>

\* What the loop leaves in the queue: get_nowait() took the k-th item too
Remaining(q, k) == IF k = 0 THEN <<>> ELSE SubSeq(q, k + 1, Len(q))

Rescheduled_NotAfterRaise(raised) == IF raised THEN 0 ELSE 1

\* finally: self.after(100, self._process_gui_queue)
Rescheduled(raised) == 1

\* The text the last item of that action set, or old when there is none
Positions(items, action) == {i \in 1..Len(items) : items[i].action = action}
LastText(items, action, old) ==
    IF Positions(items, action) = {} THEN old ELSE items[Greatest(Positions(items, action))].text.msg

Ids(items) == [i \in 1..Len(items) |-> items[i].id]

\* The branches of the loop body, for the items done in order
Apply(done) ==
    /\ applied' = applied \o Ids(done)
    /\ status_var' = LastText(done, "status", status_var)
    /\ listen_button' = LastText(done, "button", listen_button)
    /\ tkCalls' = tkCalls \cup {[op |-> "after", thread |-> "ui"]}
                          \cup (IF done = <<>> THEN {} ELSE {[op |-> "widget", thread |-> "ui"]})

Tick(k) ==
    /\ alive
    /\ tickTimers > 0
    /\ k \in 0..Len(gui_queue)
    /\ Apply(AppliedItems(gui_queue, k))
    /\ gui_queue' = Remaining(gui_queue, k)
    /\ dropped' = IF k = 0 THEN dropped ELSE dropped \cup {gui_queue[k].id}
    /\ tickTimers' = (tickTimers - 1) + Rescheduled(k # 0)
    /\ UNCHANGED <<mgrVars, config, alive, nextItemId, timerVars, listening_event, loopVars, cmdVars, speakThreads>>

(***************************************************************************)
(* speak(): the thread it starts ends, by raising or not                   *)
(***************************************************************************)
SpeakDone(outcome) ==
    /\ speakThreads > 0
    /\ speakThreads' = speakThreads - 1
    /\ IF outcome = "raise"
       THEN Put(<<AppendItem("system", "Speech error", <<>>)>>)
       ELSE UNCHANGED queueVars
    /\ UNCHANGED <<mgrVars, config, alive, uiVars, tickTimers, timerVars, listening_event, loopVars, cmdVars, tkCalls>>

(***************************************************************************)
(* Commands                                                                *)
(***************************************************************************)
\* Submit without the put of the user's line
Submit_NoUserItem(how, text) ==
    /\ UNCHANGED queueVars
    /\ cmdThreads' = cmdThreads \cup {[id |-> nextCmdId, command |-> text, userItem |-> nextItemId]}
    /\ nextCmdId' = nextCmdId + 1

\* send_text: the Send button or Return, with the entry holding entry
\* put(("append", "user", text)); Thread(target=self._do_command, args=(text,)).start()
Submit(how, text) ==
    /\ Put(<<AppendItem("user", how, text)>>)
    /\ cmdThreads' = cmdThreads \cup {[id |-> nextCmdId, command |-> text, userItem |-> nextItemId]}
    /\ nextCmdId' = nextCmdId + 1

\* text = self.entry.get().strip(); if not text: return
send_text(entry) ==
    /\ alive
    /\ IF Strip(entry) = <<>>
       THEN UNCHANGED <<queueVars, cmdThreads, nextCmdId>>
       ELSE Submit("typed", Strip(entry))
    /\ tkCalls' = tkCalls \cup {[op |-> "widget", thread |-> "ui"]}
    /\ UNCHANGED <<mgrVars, config, alive, uiVars, tickTimers, timerVars, listening_event, loopVars, ran, speakThreads>>

\* The outcomes one call of _do_command can meet
Outcomes(cond) == IF cond THEN {"ok", "raise"} ELSE {"ok"}
Range(f) == {f[i] : i \in DOMAIN f}
EnvsFor(hs, cfg, nows) ==
    [ai : Outcomes("knowledge" \in hs /\ cfg.api_keys.openai # ""),
     wiki : Outcomes("knowledge" \in hs),
     tk : Outcomes(hs \cap {"play music", "reminder", "exit"} # {}),
     dialog : IF "play music" \in hs /\ cfg.favorites.music = <<>> THEN {"path", "cancel"} ELSE {"path"},
     mixer : Outcomes("play music" \in hs),
     now : IF "reminder" \in hs THEN nows ELSE {CHOOSE n \in nows : TRUE}]
Envs(command, cfg, nows) == EnvsFor(Range(HandlersRun(command)), cfg, nows)

\* One _do_command thread runs to its end
\* What a call with effect e does to the shared state
Effect(e, now) ==
    /\ Put(e.puts)
    /\ speakThreads' = speakThreads + e.speaks
    /\ tkCalls' = tkCalls \cup Range(e.tk)
    /\ after_jobs' = Register(after_jobs, nextAfterId, e.timers, now)
    /\ nextAfterId' = nextAfterId + Len(e.timers)
    /\ config' = [config EXCEPT !.favorites.music = e.music]

Finished(t, env, hs, e) ==
    [id |-> t.id, command |-> t.command, userItem |-> t.userItem, handlers |-> hs, puts |-> e.puts,
     calls |-> e.calls, firstItem |-> nextItemId, key |-> config.api_keys.openai, env |-> env]

Ends(t, env, e) ==
    /\ alive \/ e.tk = <<>> \/ env.tk = "raise"
    /\ Effect(e, env.now)
    /\ cmdThreads' = cmdThreads \ {t}
    /\ ran' = ran \cup {Finished(t, env, HandlersRun(t.command), e)}

DoCommand(t, env) ==
    /\ t \in cmdThreads
    /\ Ends(t, env, do_command(t.command, config, env))
    /\ UNCHANGED <<mgrVars, alive, uiVars, tickTimers, med_after_ids, lastScheduled, listening_event,
                   loopVars, nextCmdId>>

\* The Play Music button: play_music_from_favorites on the UI thread
PlayButton(env) ==
    /\ alive
    /\ Effect(play_music_from_favorites(config, env, "ui"), env.now)
    /\ UNCHANGED <<mgrVars, alive, uiVars, tickTimers, med_after_ids, lastScheduled, listening_event, loopVars, cmdVars>>

\* The Emergency button: emergency_protocol on the UI thread
EmergencyButton ==
    /\ alive
    /\ Effect(emergency_protocol(config), Noon)
    /\ UNCHANGED <<mgrVars, alive, uiVars, tickTimers, med_after_ids, lastScheduled, listening_event, loopVars, cmdVars>>

\* The Medications button: show_medication_schedule on the UI thread
MedButton ==
    /\ alive
    /\ Effect(show_medication_schedule(config).eff, Noon)
    /\ UNCHANGED <<mgrVars, alive, uiVars, tickTimers, med_after_ids, lastScheduled, listening_event, loopVars, cmdVars>>

(***************************************************************************)
(* Shutdown, timers that fire, settings                                    *)
(***************************************************************************)
\* listening_event.clear(): the count of commands dispatched since the flag
\* was cleared starts again when the flag goes from set to clear
ClearedCount(count) == IF listening_event THEN [t \in DOMAIN count |-> 0] ELSE count

\* on_close: the flag is cleared and destroy() ends the window and its timers
on_close ==
    /\ alive
    /\ listening_event' = FALSE
    /\ sinceClear' = ClearedCount(sinceClear)
    /\ alive' = FALSE
    /\ after_jobs' = {}
    /\ tickTimers' = 0
    /\ tkCalls' = tkCalls \cup {[op |-> "destroy", thread |-> "ui"]}
    /\ UNCHANGED <<mgrVars, config, queueVars, uiVars, nextAfterId, med_after_ids, lastScheduled,
                   loopPc, loopIters, exitItems, cmdVars, speakThreads>>

\* WM_DELETE_WINDOW
CloseWindow == on_close

\* The timer of the exit branch fires
FireClose(j) ==
    /\ j \in after_jobs
    /\ j.fn = "on_close"
    /\ on_close

\* The one-shot timer of add_reminder fires
FireReminder(j) ==
    /\ alive
    /\ j \in after_jobs
    /\ j.fn = "reminder"
    /\ after_jobs' = after_jobs \ {j}
    /\ Put(<<AppendItem("assistant", "Reminder:", j.med)>>)
    /\ speakThreads' = speakThreads + 1
    /\ UNCHANGED <<mgrVars, config, alive, uiVars, tickTimers, nextAfterId, med_after_ids, lastScheduled,
                   listening_event, loopVars, cmdVars, tkCalls>>

\* _trigger_medication(med, time_str), from its timer
trigger_medication(j) ==
    /\ alive
    /\ j \in after_jobs
    /\ j.fn = "med"
    /\ Put(<<AppendItem("assistant", "It's time to take your", <<j.med>> \o j.tstr)>>)
    /\ speakThreads' = speakThreads + 1
    /\ after_jobs' = (after_jobs \ {j}) \cup Rearmed(j, nextAfterId)
    /\ nextAfterId' = nextAfterId + 1
    /\ med_after_ids' = RearmedIds(med_after_ids, nextAfterId)
    /\ tkCalls' = tkCalls \cup {[op |-> "after", thread |-> "ui"]}
    /\ UNCHANGED <<mgrVars, config, alive, uiVars, tickTimers, lastScheduled, listening_event, loopVars, cmdVars>>

\* _schedule_medication_reminders at time now, reading schedule from the configuration
Reschedule(schedule, reqs, now) ==
    /\ after_jobs' = Register(CancelAll(after_jobs, med_after_ids), nextAfterId, reqs, now)
    /\ med_after_ids' = ArmedIds(nextAfterId, Len(reqs))
    /\ nextAfterId' = nextAfterId + Len(reqs)
    /\ lastScheduled' = [schedule |-> schedule, cancelled |-> after_jobs \ CancelAll(after_jobs, med_after_ids)]

schedule_medication_reminders(schedule, now) == Reschedule(schedule, MedRequests(schedule, now), now)

\* SettingsDialog.save_settings with the medication tab holding schedule:
\* the configuration is set, then written; only when the file was written
\* apply_settings_changes runs, which reschedules the reminders
save_settings(schedule, written, now) ==
    /\ alive
    /\ config' = [config EXCEPT !.medication_schedule = schedule]
    /\ IF written
       THEN schedule_medication_reminders(schedule, now)
       ELSE UNCHANGED timerVars
    /\ tkCalls' = tkCalls \cup {[op |-> "widget", thread |-> "ui"]}
    /\ UNCHANGED <<mgrVars, alive, queueVars, uiVars, tickTimers, listening_event, loopVars, cmdVars, speakThreads>>

(***************************************************************************)
(* Listening: toggle_listening and the _listen_loop threads                *)
(***************************************************************************)
ExitPuts_StatusFirst == <<Status("Ready"), Button("Start Listening")>>

\* The two items _listen_loop puts in its finally clause, in order
ExitPuts == <<Button("Start Listening"), Status("Ready")>>

IdleLoops == {t \in DOMAIN loopPc : loopPc[t] = "idle"}
Running(t) == loopPc[t] \notin {"idle", "done", "killed"}

toggle_listening ==
    /\ alive
    /\ IF listening_event
       THEN /\ listening_event' = FALSE
            /\ sinceClear' = ClearedCount(sinceClear)
            /\ Put(<<Button("Start Listening"), Status("Ready")>>)
            /\ UNCHANGED loopPc
       ELSE /\ IdleLoops # {}
            /\ listening_event' = TRUE
            /\ Put(<<Button("Listening..."), Status("Listening...")>>)
            /\ loopPc' = [loopPc EXCEPT ![CHOOSE t \in IdleLoops : \A u \in IdleLoops : t <= u] = "open"]
            /\ UNCHANGED sinceClear
    /\ UNCHANGED <<mgrVars, config, alive, uiVars, tickTimers, timerVars, loopIters, exitItems, cmdVars,
                   speakThreads, tkCalls>>

\* with sr.Microphone() as source: opening the microphone may raise
LoopOpen(t, outcome) ==
    /\ loopPc[t] = "open"
    /\ IF outcome = "ok"
       THEN loopPc' = [loopPc EXCEPT ![t] = "check"] /\ UNCHANGED queueVars
       ELSE loopPc' = [loopPc EXCEPT ![t] = "fin_clear"] /\ Put(<<ErrorPopup("Microphone error")>>)
    /\ UNCHANGED <<mgrVars, config, alive, uiVars, tickTimers, timerVars, listening_event, loopIters,
                   sinceClear, exitItems, cmdVars, speakThreads, tkCalls>>

\* while self.listening_event.is_set(): ... put(("status", "Listening..."))
LoopCheck(t, maxIters) ==
    /\ loopPc[t] = "check"
    /\ IF listening_event
       THEN /\ loopIters[t] < maxIters
            /\ loopIters' = [loopIters EXCEPT ![t] = @ + 1]
            /\ Put(<<Status("Listening...")>>)
            /\ loopPc' = [loopPc EXCEPT ![t] = "listen"]
       ELSE /\ loopPc' = [loopPc EXCEPT ![t] = "close"]
            /\ UNCHANGED <<loopIters, queueVars>>
    /\ UNCHANGED <<mgrVars, config, alive, uiVars, tickTimers, timerVars, listening_event,
                   sinceClear, exitItems, cmdVars, speakThreads, tkCalls>>

\* adjust_for_ambient_noise and listen(timeout=5) return: audio, WaitTimeoutError
\* (continue), or another exception (the outer except)
LoopListen(t, outcome) ==
    /\ loopPc[t] = "listen"
    /\ CASE outcome = "audio" ->
              loopPc' = [loopPc EXCEPT ![t] = "recognize"] /\ Put(<<Status("Recognizing...")>>)
         [] outcome = "timeout" ->
              loopPc' = [loopPc EXCEPT ![t] = "check"] /\ UNCHANGED queueVars
         [] OTHER ->
              loopPc' = [loopPc EXCEPT ![t] = "fin_clear"] /\ Put(<<ErrorPopup("Microphone error")>>)
    /\ UNCHANGED <<mgrVars, config, alive, uiVars, tickTimers, timerVars, listening_event, loopIters,
                   sinceClear, exitItems, cmdVars, speakThreads, tkCalls>>

\* recognize_google returns text (possibly empty) or raises UnknownValueError,
\* RequestError, or another exception
LoopRecognize(t, outcome, text) ==
    /\ loopPc[t] = "recognize"
    /\ CASE outcome = "text" /\ text # <<>> ->
              /\ Submit("spoken", text)
              /\ sinceClear' = [sinceClear EXCEPT ![t] = IF listening_event THEN @ ELSE @ + 1]
              /\ loopPc' = [loopPc EXCEPT ![t] = "check"]
              /\ UNCHANGED listening_event
         [] outcome = "text" /\ text = <<>> ->
              /\ loopPc' = [loopPc EXCEPT ![t] = "check"]
              /\ UNCHANGED <<queueVars, cmdThreads, nextCmdId, sinceClear, listening_event>>
         [] outcome = "unknown" ->
              /\ Put(<<AppendItem("system", "Could not understand audio.", <<>>)>>)
              /\ loopPc' = [loopPc EXCEPT ![t] = "check"]
              /\ UNCHANGED <<cmdThreads, nextCmdId, sinceClear, listening_event>>
         [] outcome = "request_error" ->
              /\ Put(<<AppendItem("system", "Speech service error", <<>>)>>)
              /\ listening_event' = FALSE
              /\ sinceClear' = ClearedCount(sinceClear)
              /\ loopPc' = [loopPc EXCEPT ![t] = "close"]
              /\ UNCHANGED <<cmdThreads, nextCmdId>>
         [] OTHER ->
              /\ Put(<<ErrorPopup("Microphone error")>>)
              /\ loopPc' = [loopPc EXCEPT ![t] = "fin_clear"]
              /\ UNCHANGED <<cmdThreads, nextCmdId, sinceClear, listening_event>>
    /\ UNCHANGED <<mgrVars, config, alive, uiVars, tickTimers, timerVars, loopIters, exitItems, ran,
                   speakThreads, tkCalls>>

\* The while loop ended without an exception (the flag was clear, or break):
\* the with statement closes the microphone, which may raise into the outer except
LoopClose(t, outcome) ==
    /\ loopPc[t] = "close"
    /\ loopPc' = [loopPc EXCEPT ![t] = "fin_clear"]
    /\ IF outcome = "ok" THEN UNCHANGED queueVars ELSE Put(<<ErrorPopup("Microphone error")>>)
    /\ UNCHANGED <<mgrVars, config, alive, uiVars, tickTimers, timerVars, listening_event, loopIters,
                   sinceClear, exitItems, cmdVars, speakThreads, tkCalls>>

\* finally: self.listening_event.clear()
LoopFinClear(t) ==
    /\ loopPc[t] = "fin_clear"
    /\ listening_event' = FALSE
    /\ sinceClear' = ClearedCount(sinceClear)
    /\ loopPc' = [loopPc EXCEPT ![t] = "fin_button"]
    /\ UNCHANGED <<mgrVars, config, alive, queueVars, uiVars, tickTimers, timerVars, loopIters, exitItems,
                   cmdVars, speakThreads, tkCalls>>

\* finally: the first, then the second put
PutOnExit(t, item) ==
    /\ Put(<<item>>)
    /\ exitItems' = [exitItems EXCEPT ![t] = Append(@, [id |-> nextItemId, action |-> item.action,
                                                       msg |-> item.text.msg])]

LoopFinPut(t) ==
    /\ loopPc[t] \in {"fin_button", "fin_status"}
    /\ PutOnExit(t, IF loopPc[t] = "fin_button" THEN ExitPuts[1] ELSE ExitPuts[2])
    /\ loopPc' = [loopPc EXCEPT ![t] = IF loopPc[t] = "fin_button" THEN "fin_status" ELSE "done"]
    /\ UNCHANGED <<mgrVars, config, alive, uiVars, tickTimers, timerVars, listening_event, loopIters,
                   sinceClear, cmdVars, speakThreads, tkCalls>>

\* main() returns once the window is destroyed and the interpreter exits: the
\* daemon threads still running end where they are
Killed(pcs) == [t \in DOMAIN pcs |-> IF pcs[t] \in {"idle", "done"} THEN pcs[t] ELSE "killed"]

ProcessExit ==
    /\ ~alive
    /\ loopPc' = Killed(loopPc)
    /\ cmdThreads' = {}
    /\ speakThreads' = 0
    /\ UNCHANGED <<mgrVars, config, alive, queueVars, uiVars, tickTimers, timerVars, listening_event, loopIters,
                   sinceClear, exitItems, nextCmdId, ran, tkCalls>>

(***************************************************************************)
(* Inputs                                                                  *)
(***************************************************************************)
W ==
    [help |-> <<"H", "e", "l", "p">>,
     waterfall |-> <<"w", "a", "t", "e", "r", "f", "a", "l", "l">>,
     time |-> <<"t", "i", "m", "e">>,
     update |-> <<"u", "p", "d", "a", "t", "e">>,
     weather |-> <<"W", "e", "a", "t", "h", "e", "r">>,
     news |-> <<"n", "e", "w", "s">>,
     joke |-> <<"j", "o", "k", "e">>,
     play_music |-> <<"p", "l", "a", "y", " ", "m", "u", "s", "i", "c">>,
     reminder |-> <<"r", "e", "m", "i", "n", "d", "e", "r">>,
     pills |-> <<"p", "i", "l", "l", "s">>,
     open |-> <<"o", "p", "e", "n">>,
     site |-> <<"x", ".", "o", "r", "g">>,
     quit |-> <<"Q", "u", "i", "t">>,
     who |-> <<"w", "h", "o">>]

R ==
    [nap_0800 |-> <<"r", "e", "m", "i", "n", "d", " ", "m", "e", " ", "t", "o", " ", "n", "a", "p", " ", "a", "t", " ", "0", "8", ":", "0", "0">>,
     nap_8pm |-> <<"R", "e", "m", "i", "n", "d", " ", "m", "e", " ", "t", "o", " ", "n", "a", "p", " ", "a", "t", " ", "8", "p", "m">>,
     nap |-> <<"r", "e", "m", "i", "n", "d", " ", "m", "e", " ", "t", "o", " ", "n", "a", "p">>,
     walk_2359 |-> <<"r", "e", "m", "i", "n", "d", " ", "m", "e", " ", "t", "o", " ", "l", "o", "o", "k", " ", "a", "t", " ", "b", "i", "r", "d", "s", " ", "a", "t", " ", "2", "3", ":", "5", "9">>]

T ==
    [t0800 |-> <<"0", "8", ":", "0", "0">>,
     t2000 |-> <<"2", "0", ":", "0", "0">>,
     t0000 |-> <<"0", "0", ":", "0", "0">>,
     t2359 |-> <<"2", "3", ":", "5", "9">>,
     t8pm |-> <<"8", "p", "m">>,
     t2400 |-> <<"2", "4", ":", "0", "0">>,
     t0860 |-> <<"0", "8", ":", "6", "0">>,
     t080000 |-> <<"0", "8", ":", "0", "0", ":", "0", "0">>,
     t8_5 |-> <<" ", "8", ":", "5">>]

\* Words a command is made of
Vocabulary == {W.help, W.waterfall, W.time, W.update, W.weather, W.news, W.joke, W.play_music,
               W.reminder, W.pills, W.open, W.site, W.quit, W.who}

\* What the entry can hold when Send is pressed: one or two words, a reminder
\* request, surrounding blanks, nothing but blanks
EntryTexts ==
    Vocabulary
    \cup {a \o <<" ">> \o b : a \in Vocabulary, b \in Vocabulary}
    \cup {R.nap_0800, R.nap_8pm, R.nap, R.walk_2359}
    \cup {<<" ", "\t">> \o W.time \o <<" ">>, <<" ", " ">>}

\* Clock readings
NowSet == {At(7, 59, 59, 999600), At(8, 0, 0, 0), At(8, 0, 0, 1), At(23, 59, 59, 999999),
           At(12, 30, 15, 250000), At(0, 0, 0, 0)}

\* medication_schedule: the dictionary in insertion order, med -> times
Med(name, times) == [med |-> name, times |-> times]
Schedules == {<<>>,
              <<Med("Aspirin", <<T.t0800, T.t2000>>)>>,
              <<Med("Aspirin", <<T.t8pm, T.t0800>>), Med("Insulin", <<T.t0000>>)>>,
              <<Med("Insulin", <<T.t2400, T.t080000, T.t2359>>)>>,
              <<Med("Aspirin", <<T.t0860>>), Med("Insulin", <<T.t8_5, T.t0800>>)>>,
              <<Med("Aspirin", <<T.t0800, T.t0800>>)>>}

\* What the medication tab of the settings dialog can produce: every time
\* stripped and not empty, every medication with at least one time
FromDialog(entries) == \A i \in 1..Len(entries) : entries[i].tstr # <<>> /\ Strip(entries[i].tstr) = entries[i].tstr
DialogSchedules ==
    {s \in Schedules : FromDialog(ScheduleEntries(s)) /\ \A i \in 1..Len(s) : s[i].times # <<>>}

Contact(name, phone) == [name |-> name, phone |-> phone]

Config(key, music, contacts, schedule) ==
    [api_keys |-> [openai |-> key], favorites |-> [music |-> music],
     emergency_contacts |-> contacts, medication_schedule |-> schedule]

(***************************************************************************)
(* The state after AURAApp.__init__ with configuration cfg at time now:    *)
(* the drain timer is registered, the reminders are scheduled, the         *)
(* greeting is put and spoken.                                             *)
(***************************************************************************)
MaxLoops == 2

Constructed(cfg, now, reqs) ==
       /\ config = cfg
       /\ alive = TRUE
       /\ gui_queue = PutAll(<<>>, 1, <<AppendItem("assistant", "greeting", <<>>)>>)
       /\ nextItemId = 2
       /\ applied = <<>>
       /\ dropped = {}
       /\ status_var = "Ready"
       /\ listen_button = "Start Listening"
       /\ tickTimers = 1
       /\ after_jobs = Register({}, 1, reqs, now)
       /\ nextAfterId = 1 + Len(reqs)
       /\ med_after_ids = ArmedIds(1, Len(reqs))
       /\ lastScheduled = [schedule |-> cfg.medication_schedule, cancelled |-> {}]
       /\ listening_event = FALSE
       /\ loopPc = [t \in 1..MaxLoops |-> "idle"]
       /\ loopIters = [t \in 1..MaxLoops |-> 0]
       /\ sinceClear = [t \in 1..MaxLoops |-> 0]
       /\ exitItems = [t \in 1..MaxLoops |-> <<>>]
       /\ cmdThreads = {}
       /\ nextCmdId = 1
       /\ ran = {}
       /\ speakThreads = 1
       /\ tkCalls = {[op |-> "after", thread |-> "ui"]}

\* The application is given its configuration as cfg: the file it came from and
\* the calls of ConfigManager.set are left out
InitWith(cfg, now) ==
    /\ Constructed(cfg, now, MedRequests(cfg.medication_schedule, now))
    /\ config_file = "-"
    /\ data = "-"
    /\ setCalls = 0

(***************************************************************************)
(* The router: one typed command, under every configuration                *)
(***************************************************************************)
RouteConfigs == {Config("", <<>>, <<>>, <<>>),
                 Config("sk-key", <<>>, <<Contact("Ann", "555-0101"), Contact("Bob", "555-0102")>>, <<>>),
                 Config("", <<"song.mp3">>, <<[phone |-> "555-0103"]>>, <<Med("Aspirin", <<T.t0800>>)>>),
                 Config("sk-key", <<"song.mp3">>, <<>>, <<Med("Aspirin", <<T.t0800>>)>>)}

RouteInit == \E cfg \in RouteConfigs : InitWith(cfg, Noon)

RouteNext ==
    \/ \E entry \in EntryTexts : nextCmdId = 1 /\ send_text(entry)
    \/ \E t \in cmdThreads : \E env \in Envs(t.command, config, NowSet) : DoCommand(t, env)
    \/ \E env \in Envs(W.play_music, config, {Noon}) : nextItemId = 2 /\ PlayButton(env)
    \/ nextItemId = 2 /\ EmergencyButton
    \/ SpeakDone("ok")
    \/ Tick(0)
    \/ \E j \in after_jobs : FireReminder(j)
    \/ \E j \in after_jobs : FireClose(j)
    \/ /\ \E j \in after_jobs : j.fn = "reminder"
       /\ config.medication_schedule # <<>>
       /\ save_settings(<<>>, TRUE, Noon)

SpecRoute == RouteInit /\ [][RouteNext]_vars

(***************************************************************************)
(* Claims about the router (SpecRoute)                                     *)
(***************************************************************************)
ClaimOrder == <<"emergency", "time", "date", "weather", "news", "joke", "play music", "reminder",
                "medication", "open", "exit", "knowledge">>

FirstMatching(cmd) == ClaimOrder[Least({i \in 1..Len(ClaimOrder) : BranchCond(ClaimOrder[i], cmd)})]

RoutedRight(r, cmd) ==
    /\ r.handlers = <<FirstMatching(cmd)>>
    /\ ContainsAny(cmd, EmergencyKeywords) =>
          /\ r.handlers = <<"emergency">>
          /\ r.puts[1].text.msg = "Triggering emergency protocol."
          /\ r.puts[2].tag = "emergency"

\* C1: every finished _do_command ran exactly one handler, the first in the
\* fixed order emergency, time, date, weather, news, joke, play music, reminder,
\* medication, open, exit, knowledge whose substring condition holds on the
\* lower-cased, stripped command; a command with an emergency keyword ran the
\* emergency protocol and nothing else.
C1_RouterRunsFirstMatch == \A r \in ran : RoutedRight(r, Strip(Lower(r.command)))

\* C1 witness: a command holding both an emergency keyword and "time" was routed
C1_Witness ==
    \E r \in ran : /\ Contains(Lower(r.command), K.help)
                   /\ Contains(Lower(r.command), K.time)
                   /\ r.handlers = <<"emergency">>

IsAssistantReply(item) == item.action = "append" /\ item.tag = "assistant"

FallbackRight(r, replies) ==
    /\ Len(replies) = 1
    /\ r.key # "" /\ r.env.ai = "ok" =>
          replies[1].text.msg = "openai text" /\ "wikipedia" \notin Range(r.calls)
    /\ (r.key = "" \/ r.env.ai = "raise") /\ r.env.wiki = "ok" =>
          replies[1].text.msg = "wikipedia summary"
    /\ (r.key = "" \/ r.env.ai = "raise") /\ r.env.wiki = "raise" =>
          replies[1].text.msg = "Sorry, I couldn't find an answer."
    /\ r.key = "" => "openai" \notin Range(r.calls)

\* C2: a command no keyword handler matched ended with exactly one assistant
\* reply: the OpenAI text when a key is configured and the call succeeded
\* (Wikipedia not consulted), else the Wikipedia summary, else the apology.
C2_FallbackChain ==
    \A r \in ran : r.handlers = <<"knowledge">> => FallbackRight(r, SelectSeq(r.puts, IsAssistantReply))

\* C2 witness: OpenAI raised, then Wikipedia raised, and the apology was put
C2_Witness ==
    \E r \in ran : /\ r.handlers = <<"knowledge">>
                   /\ r.key # "" /\ r.env.ai = "raise" /\ r.env.wiki = "raise"
                   /\ r.calls = <<"openai", "wikipedia">>
                   /\ r.puts[1].text.msg = "Sorry, I couldn't find an answer."

\* C3: every Tk call (widget update, dialog, timer registration) is made by the
\* UI thread.
C3_OnlyUiThreadCallsTk == \A c \in tkCalls : c.thread = "ui"

(***************************************************************************)
(* The medication timers: construction under every schedule and clock      *)
(* reading, timers firing, the settings dialog saving                      *)
(***************************************************************************)
MaxAfterId == 5

MedInit == \E s \in Schedules : \E now \in NowSet : InitWith(Config("", <<>>, <<>>, s), now)

\* Clock readings when the settings are saved
SaveNows == {At(23, 59, 59, 999999)}

MedNext ==
    \/ \E j \in after_jobs : nextAfterId <= MaxAfterId /\ trigger_medication(j)
    \/ \E s \in DialogSchedules : \E written \in BOOLEAN : \E now \in SaveNows :
          nextAfterId <= MaxAfterId /\ save_settings(s, written, now)
    \/ CloseWindow

SpecMed == MedInit /\ [][MedNext]_vars

PendingMed == {j \in after_jobs : j.fn = "med"}
TimersFor(med, tstr) == {j \in PendingMed : j.med = med /\ j.tstr = tstr}
Listed(es, e) == Cardinality({i \in 1..Len(es) : es[i] = e})

\* As many pending timers for a (med, time) as the schedule lists it with a
\* time that parses, and no others
OnePerEntry(es) ==
    /\ \A i \in 1..Len(es) : Cardinality(TimersFor(es[i].med, es[i].tstr)) = Listed(es, es[i])
    /\ \A j \in PendingMed : \E i \in 1..Len(es) : es[i] = [med |-> j.med, tstr |-> j.tstr]

\* What one firing of the timer j does
FiringRearms(j) ==
    trigger_medication(j) =>
        /\ Len(gui_queue') = Len(gui_queue) + 1
        /\ gui_queue'[Len(gui_queue')].action = "append"
        /\ gui_queue'[Len(gui_queue')].tag = "assistant"
        /\ gui_queue'[Len(gui_queue')].text = Txt("It's time to take your", <<j.med>> \o j.tstr)
        /\ \E r \in after_jobs' \ after_jobs :
              /\ after_jobs' = (after_jobs \ {j}) \cup {r}
              /\ r.fn = "med" /\ r.med = j.med /\ r.tstr = j.tstr
              /\ r.delay = MsPerDay

Replaced(es) ==
    /\ PendingMed \cap PendingMed' = {}
    /\ PendingMed \subseteq lastScheduled'.cancelled
    /\ Cardinality(PendingMed') = Len(es)
    /\ \A i \in 1..Len(es) : \E j \in PendingMed' :
          j.id = nextAfterId + i - 1 /\ j.med = es[i].med /\ j.tstr = es[i].tstr /\ j.first

Saved(s, now) == save_settings(s, TRUE, now) => Replaced(ValidEntries(ScheduleEntries(config'.medication_schedule)))

CeilMs(us) == (us + 999) \div 1000

SecondsOf(t) == t.hh * 3600 + t.mm * 60
SecondsAt(now) == now.h * 3600 + now.m * 60 + now.s

\* The first delay of timer j, armed at now for the time t
DelayRight(j, sched, nowS, us) ==
    /\ 0 <= j.delay /\ j.delay <= MsPerDay
    /\ sched <= nowS => j.delay = MsPerDay - (nowS - sched) * 1000 - CeilMs(us)
    /\ sched > nowS => j.delay = (sched - nowS) * 1000 - CeilMs(us)
    /\ j.delay = 0 => us > 999000 /\ (sched = nowS + 1 \/ (sched = 0 /\ nowS = 86399))

\* C9 (amended): a time at or before now today is armed for the same time on
\* the next day; the first delay is the time to the next occurrence cut to
\* whole milliseconds: at least 0, at most 24 hours, and 0 only when the next
\* occurrence is less than a millisecond away.
C9_FirstDelay ==
    \A j \in PendingMed : j.first => DelayRight(j, SecondsOf(ParseHHMM(j.tstr)), SecondsAt(j.armedAt), j.armedAt.us)

\* C9 witness: rescheduled at 23:59:59.999999, one timer for a time already past
\* today waits for tomorrow, another is due in less than a millisecond
C9_Witness ==
    \E j \in PendingMed : \E z \in PendingMed :
        /\ lastScheduled.cancelled # {}
        /\ j.first /\ SecondsOf(ParseHHMM(j.tstr)) <= SecondsAt(j.armedAt) /\ j.delay > 0 /\ j.delay < MsPerDay
        /\ z.first /\ z.delay = 0

\* C9 as stated: every first delay is strictly greater than 0 and at most 24 hours
C9_FirstDelayPositive == \A j \in PendingMed : j.first => 0 < j.delay /\ j.delay <= MsPerDay

(***************************************************************************)
(* The mailbox: the UI thread, command threads and speak threads put,      *)
(* the drain applies; any item may raise when applied.  The drain's timer  *)
(* fires as long as it is pending.                                         *)
(***************************************************************************)
MaxItems == 5

QueueConfig == Config("sk-key", <<>>, <<Contact("Ann", "555-0101")>>, <<>>)

QueueInit == InitWith(QueueConfig, Noon)

Drain == \E k \in 0..Len(gui_queue) : Tick(k)

QueueNext ==
    \/ nextItemId <= MaxItems /\ send_text(W.time)
    \/ nextItemId <= MaxItems /\ EmergencyButton
    \/ \E t \in cmdThreads : \E env \in Envs(t.command, config, {Noon}) :
          nextItemId <= MaxItems /\ DoCommand(t, env)
    \/ \E outcome \in {"ok", "raise"} : nextItemId <= MaxItems /\ SpeakDone(outcome)
    \/ Drain
    \/ CloseWindow

SpecQueue == QueueInit /\ [][QueueNext]_vars /\ WF_vars(Drain)

Increasing(ids) == \A i \in 1..Len(ids) : \A j \in 1..Len(ids) : i < j => ids[i] < ids[j]

\* C5: items are applied in the order they were put (ids count the puts), none
\* twice, and what is still queued was put after everything applied.
C5_FifoOnce == Increasing(applied \o Ids(gui_queue))

\* C5 witness: items of the UI thread, a command thread and a speak thread were
\* applied over several runs of the drain and more are queued
C5_Witness ==
    /\ Len(applied) >= 4
    /\ gui_queue # <<>>
    /\ \E r \in ran : r.firstItem \in Range(applied) /\ r.userItem \in Range(applied)

\* The ids the puts can hand out: a handler starts while at most MaxItems were
\* put and puts at most two
ItemIds == 1..(MaxItems + 1)

InQueue(id) == id \in Range(Ids(gui_queue))
Settled(id) == id \in Range(applied) \/ id \in dropped \/ ~alive

\* A run of the drain in which an item raised: that item is dropped, the items
\* before it were applied, the items behind it are still queued in their order
DropsOne(q) ==
    dropped' # dropped =>
        \E k \in 1..Len(q) :
            /\ dropped' = dropped \cup {q[k].id}
            /\ applied' = applied \o Ids(SubSeq(q, 1, k - 1))
            /\ Len(gui_queue') >= Len(q) - k
            /\ SubSeq(gui_queue', 1, Len(q) - k) = SubSeq(q, k + 1, Len(q))

\* C6: while the window exists and the drain's timer keeps firing, every item
\* put on gui_queue is eventually applied, unless its own application raises:
\* then it is dropped and never applied, and the items behind it stay queued
\* and are applied by later runs.
C6_EveryItemApplied ==
    /\ \A id \in ItemIds : InQueue(id) ~> Settled(id)
    /\ [](dropped \cap Range(applied) = {})
    /\ [][DropsOne(gui_queue)]_vars

\* C6 witness: an item was dropped and the items put before and after it were applied
C6_Witness ==
    \E d \in dropped : alive /\ d - 1 \in Range(applied) /\ d + 1 \in Range(applied) /\ gui_queue = <<>>

(***************************************************************************)
(* Listening: the button toggles the flag and starts _listen_loop threads, *)
(* each of which takes its steps whenever its blocking call returns; the   *)
(* window may be closed and the process may then exit.                     *)
(***************************************************************************)
MaxIters == 1

ListenInit == InitWith(Config("", <<>>, <<>>, <<>>), Noon)

\* The next step of the _listen_loop thread t
LoopStep(t) ==
    \/ \E outcome \in {"ok", "raise"} : LoopOpen(t, outcome)
    \/ LoopCheck(t, MaxIters)
    \/ \E outcome \in {"audio", "timeout", "raise"} : LoopListen(t, outcome)
    \/ \E outcome \in {"text", "unknown", "request_error"} : LoopRecognize(t, outcome, W.time)
    \/ LoopClose(t, "ok")
    \/ LoopFinClear(t)
    \/ LoopFinPut(t)

ListenNext ==
    \/ toggle_listening
    \/ \E t \in 1..MaxLoops : LoopStep(t)
    \/ CloseWindow
    \/ ProcessExit

SpecListen == ListenInit /\ [][ListenNext]_vars /\ \A t \in 1..MaxLoops : WF_vars(LoopStep(t))

\* What a loop has put in its finally clause by the time it is at pc
ExitedRight(pc, items) ==
    /\ pc = "fin_status" => Len(items) = 1
    /\ pc = "done" => Len(items) = 2
    /\ Len(items) >= 1 => items[1].action = "button" /\ items[1].msg = "Start Listening"
    /\ Len(items) = 2 => items[2].action = "status" /\ items[2].msg = "Ready" /\ items[1].id < items[2].id

NewPuts ==
    [i \in 1..(Len(gui_queue') - Len(gui_queue)) |->
        [action |-> gui_queue'[Len(gui_queue) + i].action, tag |-> gui_queue'[Len(gui_queue) + i].tag,
         text |-> gui_queue'[Len(gui_queue) + i].text]]

CallItem(c) == AppendItem("system", "Simulating call to", <<ContactField(c, "name"), ContactField(c, "phone")>>)

ProtocolRight(puts, contacts) ==
    /\ puts[1].action = "append" /\ puts[1].tag = "emergency"
    /\ contacts = <<>> =>
          /\ Len(puts) = 2
          /\ puts[2].tag = "assistant"
          /\ puts[2].text.msg = "No emergency contacts configured. Please add them in Settings."
    /\ contacts # <<>> =>
          /\ Len(puts) = 1 + Len(contacts)
          /\ \A i \in 1..Len(contacts) : puts[i + 1] = CallItem(contacts[i])

RoutedProtocolRight(r) ==
    /\ r.puts[1] = AppendItem("assistant", "Triggering emergency protocol.", <<>>)
    /\ ProtocolRight(Tail(r.puts), config.emergency_contacts)

\* C11: emergency_protocol puts the emergency entry first, then one "Simulating
\* call to <name> (<phone>)" system entry per configured contact in
\* configuration order, or the single "No emergency contacts configured"
\* assistant entry when there is none; through the router the "Triggering
\* emergency protocol." entry precedes them all.
C11_EmergencyEntries ==
    /\ [](\A r \in ran : r.handlers = <<"emergency">> => RoutedProtocolRight(r))
    /\ [][EmergencyButton => ProtocolRight(NewPuts, config.emergency_contacts)]_vars

\* C11 witness: the router ran the protocol with two contacts configured
C11_Witness ==
    \E r \in ran : /\ r.handlers = <<"emergency">>
                   /\ Len(config.emergency_contacts) = 2
                   /\ Len(r.puts) = 4

(***************************************************************************)
(* Claims about the replies of _do_command (SpecRoute)                     *)
(***************************************************************************)
IsAppend(item) == item.action = "append"

\* C12: every finished _do_command put at least one "append" item on gui_queue,
\* whichever branch it took and also when its handler raised.
C12_AlwaysReplies == \A r \in ran : SelectSeq(r.puts, IsAppend) # <<>>

\* C12 witness: the handler raised before putting anything (the file dialog
\* opened off the main thread) and the except clause put the only reply
C12_Witness ==
    \E r \in ran : /\ r.handlers = <<"play music">>
                   /\ r.env.tk = "raise"
                   /\ Len(r.puts) = 1
                   /\ r.puts[1].text.msg = "An error occurred"

(***************************************************************************)
(* Submitting commands: typed and spoken, under one listening session      *)
(***************************************************************************)
MaxCmds == 2
MaxPuts == 9

SubmitInit == InitWith(Config("", <<>>, <<>>, <<>>), Noon)

\* What the entry holds when Send is pressed
SubmitEntries == {W.time, <<" ", "\t">> \o W.time \o <<" ">>, <<" ", " ">>, <<>>}

SubmitNext ==
    \/ \E entry \in SubmitEntries : nextCmdId <= MaxCmds /\ nextItemId <= MaxPuts /\ send_text(entry)
    \/ (loopPc[1] = "idle" \/ listening_event) /\ nextItemId <= MaxPuts /\ toggle_listening
    \/ nextItemId <= MaxPuts /\ LoopStep(1)
    \/ \E t \in cmdThreads : \E env \in Envs(t.command, config, {Noon}) :
          nextItemId <= MaxPuts /\ DoCommand(t, env)
    \/ Tick(0)

SpecSubmit == SubmitInit /\ [][SubmitNext]_vars

\* The ids of the items the finished call r put
ResponseIds(r) == {r.firstItem + k - 1 : k \in 1..Len(r.puts)}

\* In the transcript the item u comes before the item i
ShownBefore(u, i) ==
    \A a \in 1..Len(applied) : applied[a] = i => \E b \in 1..(a - 1) : applied[b] = u

\* The step that starts a _do_command thread has put exactly the user's line,
\* holding the thread's command, and the thread knows it as its userItem
StartedAfterPut ==
    \A t \in cmdThreads' \ cmdThreads :
        /\ Len(gui_queue') = Len(gui_queue) + 1
        /\ NewPuts[1].action = "append" /\ NewPuts[1].tag = "user"
        /\ NewPuts[1].text.arg = t.command
        /\ gui_queue'[Len(gui_queue')].id = t.userItem

BlankIgnored(entry) ==
    Strip(entry) = <<>> /\ send_text(entry) => UNCHANGED <<gui_queue, nextItemId, cmdThreads, nextCmdId>>

\* C13: the step that starts a command's handler thread (send_text or
\* _listen_loop) has put the user's own "append user" item first, so every item
\* the handler puts has a later put number and is shown after the user's line
\* in the transcript; a blank or empty entry puts nothing and starts no thread.
C13_UserLineFirst ==
    /\ [][StartedAfterPut]_vars
    /\ [](\A t \in cmdThreads : t.userItem < nextItemId)
    /\ [](\A r \in ran : \A i \in ResponseIds(r) : r.userItem < i /\ ShownBefore(r.userItem, i))
    /\ [][\A entry \in SubmitEntries : BlankIgnored(entry)]_vars

\* C13 witness: a typed command was answered and the transcript shows its line
\* and the answer; a spoken command was answered too, its line still queued
C13_Witness ==
    /\ \E r \in ran : \E i \in ResponseIds(r) : i \in Range(applied) /\ r.userItem \in Range(applied)
    /\ \E r \in ran : \E k \in 1..Len(gui_queue) :
           gui_queue[k].id = r.userItem /\ gui_queue[k].text.msg = "spoken"

(***************************************************************************)
(* Claims about how _listen_loop ends (SpecListen)                         *)
(***************************************************************************)
Ending == {"close", "fin_clear", "fin_button", "fin_status", "done", "killed"}

KeepsListening(t) ==
    /\ LoopListen(t, "timeout") \/ LoopRecognize(t, "unknown", W.time) => loopPc'[t] = "check"
    /\ LoopCheck(t, MaxIters) /\ listening_event => loopPc'[t] = "listen"

ErrorEnds(t) ==
    /\ LoopRecognize(t, "request_error", W.time) \/ LoopListen(t, "raise") \/ LoopOpen(t, "raise") =>
          loopPc'[t] \in Ending
    /\ loopPc[t] \in Ending => loopPc'[t] \in Ending

\* The step with which the loop t returns
Exits(t) == loopPc[t] # "done" /\ loopPc'[t] = "done"

ExitsCleared(t) ==
    Exits(t) => /\ ~listening_event'
                /\ Len(exitItems'[t]) = 2
                /\ exitItems'[t][1].action = "button" /\ exitItems'[t][1].msg = "Start Listening"
                /\ exitItems'[t][2].action = "status" /\ exitItems'[t][2].msg = "Ready"

\* C14: a listen timeout or unintelligible audio leaves the loop running while
\* the flag is set; a RequestError or a microphone error ends it; when the loop
\* returns, listening_event is clear and the loop has put the button reset and
\* the "Ready" status.
C14_LoopEndsCleared ==
    /\ [][\A t \in 1..MaxLoops : KeepsListening(t)]_vars
    /\ [][\A t \in 1..MaxLoops : ErrorEnds(t)]_vars
    /\ [][\A t \in 1..MaxLoops : ExitsCleared(t)]_vars

(***************************************************************************)
(* Claims about add_reminder (SpecRoute)                                   *)
(***************************************************************************)
\* The part of the command after "remind me to", split at its last " at "
ReminderSplit(cmd) == RSplit1(Strip(Split1(cmd, K.remind_me_to)[2]), K.at)

\* "remind me to <task> at HH:MM" with a time that can be parsed
HasReminderForm(cmd) ==
    /\ Contains(cmd, K.remind_me_to)
    /\ Len(ReminderSplit(cmd)) = 2
    /\ ParseHHMM(Strip(ReminderSplit(cmd)[2])).ok

ReminderJobs(jobs) == {j \in jobs : j.fn = "reminder"}

\* What the finished call r of the reminder branch armed, on the normalised command cmd
ArmedRight(r, cmd, armed) ==
    /\ HasReminderForm(cmd) =>
          /\ Cardinality(armed) = 1
          /\ \A j \in armed : j.fn = "reminder" /\ j.med = Strip(ReminderSplit(cmd)[1])
    /\ ~HasReminderForm(cmd) => armed = {}
    /\ Len(r.puts) = 1 /\ r.puts[1].tag = "assistant"

ReminderArmed ==
    \A r \in ran' \ ran :
        r.handlers = <<"reminder">> => ArmedRight(r, NormalizeCommand(r.command), after_jobs' \ after_jobs)

\* A reminder timer leaves the pending timers of a living window only by
\* firing: it puts its line once and arms nothing
ReminderFiresOnce ==
    \A j \in ReminderJobs(after_jobs) \ after_jobs' :
        alive' => /\ NewPuts = <<AppendItem("assistant", "Reminder:", j.med)>>
                  /\ after_jobs' = after_jobs \ {j}

\* C15: add_reminder arms a timer only for "remind me to <task> at HH:MM" with
\* a parsable time, and then exactly one, which puts "Reminder: <task>" once
\* when it fires and is not armed again; for every other input it arms none and
\* only replies; these timers are not in _med_after_ids and a settings change
\* does not cancel them.
C15_ReminderTimers ==
    /\ [][ReminderArmed]_vars
    /\ [][ReminderFiresOnce]_vars
    /\ [](\A j \in ReminderJobs(after_jobs) : j.id \notin Range(med_after_ids))

(***************************************************************************)
(* A ConfigManager on its own: constructed on a config.json, then set      *)
(***************************************************************************)
MaxSets == 2

\* self.data before ConfigManager.__init__ has assigned it
Unloaded == JsonValue("unloaded", <<>>)

\* ConfigManager.__init__: self.data = self._load()
LoadConfig ==
    /\ data = Unloaded
    /\ data' = Load(config_file)
    /\ UNCHANGED <<config, alive, queueVars, uiVars, tickTimers, timerVars, listening_event, loopVars,
                   cmdVars, speakThreads, tkCalls, config_file, setCalls>>

\* config_mgr.set(key_path, value)
ConfigSet(key_path, value) ==
    /\ data # Unloaded
    /\ data' = Set(data, Parts(key_path), value)
    /\ setCalls' = setCalls + 1
    /\ UNCHANGED <<config, alive, queueVars, uiVars, tickTimers, timerVars, listening_event, loopVars,
                   cmdVars, speakThreads, tkCalls, config_file>>

\* What config.json can be
ConfigFiles ==
    {File("missing", <<>>), File("unreadable", <<>>)} \cup
    {File("json", value) : value \in
       {JsonValue("dict", <<>>),
        JsonValue("dict", FromPairs(<< <<CK.city, JsonValue("str", CK.Paris)>>,
                                       <<CK.theme, JsonValue("null", "None")>> >>)),
        JsonValue("dict", FromPairs(<< <<CK.city, JsonValue("str", CK.Paris)>>,
                                       <<CK.api_keys, JsonValue("dict", FromPairs(<<
                                            <<CK.openai, JsonValue("str", CK.sk)>> >>))>> >>)),
        JsonValue("dict", FromPairs(<< <<CK.city, JsonValue("str", CK.Paris)>>,
                                       <<CK.api_keys, JsonValue("null", "None")>> >>)),
        JsonValue("dict", FromPairs(<< <<CK.api_keys, JsonValue("dict", <<>>)>>,
                                       <<CK.favorites, JsonValue("dict", FromPairs(<<
                                            <<CK.music, JsonValue("list", <<JsonValue("str", CK.sk)>>)>> >>))>>,
                                       <<<<"x">>, JsonValue("dict", FromPairs(<<
                                            <<<<"y">>, JsonValue("num", "1")>> >>))>> >>)),
        JsonValue("list", <<>>),
        JsonValue("list", <<JsonValue("list", <<JsonValue("str", CK.city), JsonValue("str", CK.Paris)>>),
                            JsonValue("str", <<"x", "y">>)>>),
        JsonValue("list", <<JsonValue("list", <<JsonValue("str", CK.city), JsonValue("str", CK.Paris)>>),
                            JsonValue("num", "5")>>),
        JsonValue("list", <<JsonValue("list", <<JsonValue("list", <<>>), JsonValue("str", CK.Paris)>>)>>),
        JsonValue("str", <<>>),
        JsonValue("str", CK.city),
        JsonValue("num", "5"),
        JsonValue("null", "None")}}

\* The dotted paths and the values given to set
ConfigPaths ==
    {<<"x">>, <<"x", ".", "y">>, <<"x", ".", "y", ".", "z">>, <<"x", ".", "z">>, <<"x", ".">>, <<>>,
     CK.city, CK.api_keys, CK.api_keys \o <<".">> \o CK.openai}
ConfigValues ==
    {JsonValue("num", "7"), JsonValue("null", "None"),
     JsonValue("dict", FromPairs(<< <<<<"y">>, JsonValue("num", "2")>> >>))}

\* ConfigManager() is the first statement of AURAApp.__init__ that touches the
\* state: nothing of the window exists yet
ConfigInit ==
    /\ config_file \in ConfigFiles
    /\ data = Unloaded
    /\ setCalls = 0
    /\ config = "-"
    /\ alive = FALSE
    /\ gui_queue = <<>>
    /\ nextItemId = 1
    /\ applied = <<>>
    /\ dropped = {}
    /\ status_var = "-"
    /\ listen_button = "-"
    /\ tickTimers = 0
    /\ after_jobs = {}
    /\ nextAfterId = 1
    /\ med_after_ids = <<>>
    /\ lastScheduled = [schedule |-> <<>>, cancelled |-> {}]
    /\ listening_event = FALSE
    /\ loopPc = [t \in 1..MaxLoops |-> "idle"]
    /\ loopIters = [t \in 1..MaxLoops |-> 0]
    /\ sinceClear = [t \in 1..MaxLoops |-> 0]
    /\ exitItems = [t \in 1..MaxLoops |-> <<>>]
    /\ cmdThreads = {}
    /\ nextCmdId = 1
    /\ ran = {}
    /\ speakThreads = 0
    /\ tkCalls = {}

ConfigNext ==
    \/ LoadConfig
    \/ \E key_path \in ConfigPaths : \E value \in ConfigValues : setCalls < MaxSets /\ ConfigSet(key_path, value)

SpecConfig == ConfigInit /\ [][ConfigNext]_vars

(***************************************************************************)
(* Claims about ConfigManager (SpecConfig)                                 *)
(***************************************************************************)
HasKeys(x, keys) == IsDict(x) /\ keys \subseteq DOMAIN x.v

\* The file holds a JSON object
IsObjectFile(file) == file.state = "json" /\ IsDict(file.value)

\* A file that cannot be read or parsed, or whose content cannot be a
\* configuration: a number or null, or an object whose api_keys is not an object
InvalidFile(file) ==
    \/ file.state = "unreadable"
    \/ file.state = "json" /\ file.value.kind \in {"num", "null"}
    \/ IsObjectFile(file) /\ CK.api_keys \in DOMAIN file.value.v /\ ~IsDict(file.value.v[CK.api_keys])

\* Every key of the object obj keeps its value in result; under api_keys, every
\* key of the file's api_keys does
KeepsFileValues(obj, result) ==
    /\ \A k \in DOMAIN obj \ {CK.api_keys} : result.v[k] = obj[k]
    /\ CK.api_keys \in DOMAIN obj =>
          \A k \in DOMAIN obj[CK.api_keys].v : result.v[CK.api_keys].v[k] = obj[CK.api_keys].v[k]

LoadedRight(file, result) ==
    /\ HasKeys(result, DOMAIN DEFAULT_CONFIG.v)
    /\ HasKeys(result.v[CK.api_keys], DOMAIN DEFAULT_CONFIG.v[CK.api_keys].v)
    /\ IsObjectFile(file) /\ ~InvalidFile(file) => KeepsFileValues(file.value.v, result)
    /\ file.state = "missing" \/ InvalidFile(file) => result = DEFAULT_CONFIG

Absent == JsonValue("str", <<"a", "b", "s", "e", "n", "t">>)

\* The paths asked with get
QueryPaths == ConfigPaths \cup {<<"x", ".", "y", ".", "w">>, <<"y">>, CK.theme, CK.api_keys \o <<".">> \o CK.newsapi}

IsPrefix(a, b) == Len(a) <= Len(b) /\ SubSeq(b, 1, Len(a)) = a

\* q is neither a prefix nor an extension of p, segment by segment
Unrelated(q, p) == ~IsPrefix(Parts(q), Parts(p)) /\ ~IsPrefix(Parts(p), Parts(q))

\* Walking parts from cur meets a segment that is not there
RECURSIVE MissesSegment(_, _)
MissesSegment(cur, parts) ==
    /\ parts # <<>>
    /\ \/ ~IsDict(cur)
       \/ Head(parts) \notin DOMAIN cur.v
       \/ MissesSegment(cur.v[Head(parts)], Tail(parts))

SetRight(p, v) ==
    ConfigSet(p, v) =>
        /\ Get(data', Parts(p), Absent) = v
        /\ \A i \in 1..(Len(Parts(p)) - 1) : IsDict(Get(data', SubSeq(Parts(p), 1, i), Absent))
        /\ \A q \in QueryPaths : Unrelated(q, p) => Get(data', Parts(q), Absent) = Get(data, Parts(q), Absent)

DefaultWhenMissing ==
    \A q \in QueryPaths : \A default \in {Absent, JsonValue("null", "None")} :
        MissesSegment(data, Parts(q)) => Get(data, Parts(q), default) = default

\* C17: after set(path, v), get(path) returns v, every intermediate dictionary
\* of the path exists, and get returns what it returned before for every path
\* that is neither a prefix nor an extension of path; get of a path with a
\* missing segment returns the default it was given.
C17_GetSetRoundTrip ==
    /\ [][\A p \in ConfigPaths : \A v \in ConfigValues : SetRight(p, v)]_vars
    /\ [](data # Unloaded => DefaultWhenMissing)

\* C17 witness: x.z was set, then x.y.z, which created x.y and left x.z
C17_Witness ==
    /\ setCalls = 2
    /\ Get(data, Parts(<<"x", ".", "y", ".", "z">>), Absent) = JsonValue("num", "7")
    /\ Get(data, Parts(<<"x", ".", "z">>), Absent) = JsonValue("null", "None")
    /\ IsDict(Get(data, Parts(<<"x", ".", "y">>), Absent))

====
